---- MODULE Spec2Model ----
(***************************************************************************)
(* Model of gemini_processor (src/mcp_servers/python/clients/src/llm/      *)
(* gemini.py): one invocation of the adapter, from the raw input bag to    *)
(* the returned LlmResponseStruct.                                         *)
(*                                                                         *)
(* Python values are represented as follows.                               *)
(*   - a dict is a function whose DOMAIN is its key set ("k in d" is       *)
(*     k \in DOMAIN d); the empty dict is the empty function <<>>;         *)
(*   - a str that the code strips or tests for truth (api_key, input,      *)
(*     prompt, part text, response body) is a sequence of characters;      *)
(*     other strs (roles, model names, messages) are TLA+ strings;         *)
(*   - an optional value is None == <<>> or Some(v) == <<v>>.              *)
(* Tool declarations, temperature and max_tokens do not influence control  *)
(* flow and are left out of the payload.                                   *)
(***************************************************************************)
EXTENDS Integers, Sequences, FiniteSets, TLC

VARIABLES data, pc, client_details, params, input_text, selected_model,
          payload, response, response_data, message_content, tool_call,
          result, exception, posts, passed

vars == <<data, pc, client_details, params, input_text, selected_model,
          payload, response, response_data, message_content, tool_call,
          result, exception, posts, passed>>

(* ---------------------------- bounds ---------------------------------- *)

MaxHist == 2

MaxParts == 2

(* ------------------------- Python primitives -------------------------- *)

None == <<>>

Some(v) == <<v>>

Get(d, k) == IF k \in DOMAIN d THEN Some(d[k]) ELSE None

GetOr(d, k, default) == IF k \in DOMAIN d THEN d[k] ELSE default

Truthy(opt) == opt # None /\ opt[1] # <<>>

PyOr(a, b) == IF Truthy(a) THEN a ELSE b

Whitespace == {" ", "\t", "\n"}

RECURSIVE LStrip(_)
LStrip(s) == IF s = <<>> THEN s
             ELSE IF Head(s) \in Whitespace THEN LStrip(Tail(s)) ELSE s

RECURSIVE RStrip(_)
RStrip(s) == IF s = <<>> THEN s
             ELSE IF s[Len(s)] \in Whitespace
                  THEN RStrip(SubSeq(s, 1, Len(s) - 1)) ELSE s

Strip(s) == RStrip(LStrip(s))

BlankNoStrip(s) == s = <<>>

Blank(s) == (s = <<>>) \/ Len(Strip(s)) = 0

ExcerptLen == 500

NoTruncate(s) == s

Truncate(s) == SubSeq(s, 1, IF Len(s) < ExcerptLen THEN Len(s) ELSE ExcerptLen)

(* ------------------------------ inputs -------------------------------- *)

HardcodedKey == <<"A", "I", "z", "a">>

valid_models == {"gemini-1.5-flash", "gemini-1.5-pro", "gemini-1.5-pro-vision"}

Absent == <<>>

KeyFrags == {Absent, "api_key" :> <<>>, "api_key" :> <<" ">>, "api_key" :> <<"k">>}

InputFrags == {Absent, "input" :> <<" ">>, "input" :> <<"h">>}

PromptFrags == {Absent, "prompt" :> <<" ">>, "prompt" :> <<"h">>, "prompt" :> <<"p", " ">>}

ModelFrags == {Absent,
               "chat_model" :> "gpt-4",
               ("input_type" :> "image") @@ ("chat_model" :> "gpt-4"),
               ("input_type" :> "image") @@ ("vision_model" :> "gpt-4")}

HistoryEntries ==
    {[type |-> "dict", val |-> [role |-> "user", content |-> <<"h">>]],
     [type |-> "dict", val |-> [role |-> "model", content |-> <<"y">>]],
     [type |-> "dict", val |-> [role |-> "system", content |-> <<"r">>]],
     [type |-> "dict", val |-> [role |-> "user"]],
     [type |-> "ChatMessage", val |-> [role |-> "user", content |-> <<"h">>]],
     [type |-> "str", val |-> <<"s">>]}

Histories == UNION {[1..n -> HistoryEntries] : n \in 0..MaxHist}

HistoryFrags == {"chat_history" :> h : h \in Histories}

RootKeyFrags == {Absent, "api_key" :> <<" ">>, "api_key" :> <<"k">>}

NoHistory == "chat_history" :> <<>>

Nested(k, r, b) == ("client_details" :> (k @@ b)) @@ r

(* The bags vary the key placement, the texts and the model fields over a   *)
(* request without history, and the history over both bag shapes.          *)
InputBags ==
    {Nested(k, r, i @@ p @@ m @@ NoHistory) :
        k \in KeyFrags, r \in RootKeyFrags, i \in InputFrags,
        p \in PromptFrags, m \in ModelFrags}
    \cup {k @@ i @@ p @@ m @@ NoHistory :
        k \in KeyFrags, i \in InputFrags, p \in PromptFrags, m \in ModelFrags}
    \cup {("client_details" :> <<>>) @@ ("api_key" :> <<"k">>) @@ i @@ p @@ m @@ NoHistory :
        i \in InputFrags, p \in PromptFrags, m \in ModelFrags}
    \cup {Nested("api_key" :> <<"k">>, Absent, i @@ p @@ h) :
        i \in InputFrags, p \in PromptFrags, h \in HistoryFrags}
    \cup {i @@ p @@ h : i \in InputFrags, p \in PromptFrags, h \in HistoryFrags}

(* json.dumps raises TypeError on a value that is not a dict, list, str,   *)
(* number, bool or None: here, a ChatMessage instance in chat_history.     *)
(* A str entry serializes and is kept as it is by line 77.                 *)
SerializableHistory(h) == \A i \in 1..Len(h) : h[i].type # "ChatMessage"

JsonSerializable(bag) ==
    /\ SerializableHistory(GetOr(bag, "chat_history", <<>>))
    /\ ("client_details" \in DOMAIN bag =>
           SerializableHistory(GetOr(bag["client_details"], "chat_history", <<>>)))

(* --------------------------- envelopes -------------------------------- *)

LlmResponseStruct(d, e, s) == [Data |-> d, Error |-> e, Status |-> s]

UnexpectedError(type) ==
    LlmResponseStruct(None,
        Some([message |-> "Unexpected processing error", type |-> type]), FALSE)

Init ==
    /\ data \in InputBags
    /\ pc = "raw_input"
    /\ client_details = None
    /\ params = None
    /\ input_text = None
    /\ selected_model = None
    /\ payload = None
    /\ response = None
    /\ response_data = None
    /\ message_content = None
    /\ tool_call = None
    /\ result = None
    /\ exception = None
    /\ posts = 0
    /\ passed = {}

(* Lines 48-51: the raw-input snapshot runs before the try block.          *)
DumpRawInput ==
    /\ pc = "raw_input"
    /\ IF JsonSerializable(data)
       THEN pc' = "parse" /\ UNCHANGED exception
       ELSE pc' = "done" /\ exception' = Some("TypeError")
    /\ UNCHANGED <<data, client_details, params, input_text, selected_model,
                   payload, response, response_data, message_content,
                   tool_call, result, posts, passed>>

(* Lines 77-78: a dict is unpacked into ChatMessage, another value kept;  *)
(* a dict whose keys are not exactly role and content raises TypeError.    *)
ConvertibleHistory(h) ==
    \A i \in 1..Len(h) : h[i].type = "dict" => DOMAIN h[i].val = {"role", "content"}

ConvertHistory(h) ==
    [i \in 1..Len(h) |-> IF h[i].type = "dict"
                         THEN [type |-> "ChatMessage", val |-> h[i].val]
                         ELSE h[i]]

(* Lines 61-65: first truthy of client_details key, root key, fallback.    *)
ResolveApiKey(cd, root) ==
    PyOr(PyOr(Get(cd, "api_key"), Get(root, "api_key")), Some(HardcodedKey))[1]

GeminiChatCompletionParams(cd, root) ==
    [input |-> GetOr(cd, "input", <<>>),
     input_type |-> GetOr(cd, "input_type", "text"),
     prompt |-> GetOr(cd, "prompt", <<>>),
     api_key |-> ResolveApiKey(cd, root),
     chat_model |-> GetOr(cd, "chat_model", "gemini-1.5-flash"),
     vision_model |-> GetOr(cd, "vision_model", "gemini-1.5-pro-vision"),
     chat_history |-> ConvertHistory(GetOr(cd, "chat_history", <<>>))]

EffectiveClientDetails(root) ==
    IF GetOr(root, "client_details", <<>>) = <<>> THEN root
    ELSE root["client_details"]

(* Lines 54-89, inside the try block.                                      *)
ParseParams ==
    /\ pc = "parse"
    /\ LET raw == GetOr(data, "client_details", <<>>)
           cd == EffectiveClientDetails(data)
       IN IF ~SerializableHistory(GetOr(raw, "chat_history", <<>>))
             \/ ~ConvertibleHistory(GetOr(cd, "chat_history", <<>>))
          THEN /\ result' = Some(UnexpectedError("TypeError"))
               /\ pc' = "done"
               /\ UNCHANGED <<client_details, params>>
          ELSE /\ client_details' = cd
               /\ params' = GeminiChatCompletionParams(cd, data)
               /\ pc' = "check_api_key"
               /\ UNCHANGED result
    /\ UNCHANGED <<data, input_text, selected_model, payload, response,
                   response_data, message_content, tool_call, exception,
                   posts, passed>>

(* Lines 91-103.                                                           *)
ValidateApiKey ==
    /\ pc = "check_api_key"
    /\ IF params.api_key = <<>> \/ Len(Strip(params.api_key)) = 0
       THEN /\ result' = Some(LlmResponseStruct(None,
                             Some([message |-> "API key required",
                                   field |-> "api_key"]), FALSE))
            /\ pc' = "done"
            /\ UNCHANGED passed
       ELSE /\ pc' = "check_input"
            /\ passed' = passed \cup {"api_key"}
            /\ UNCHANGED result
    /\ UNCHANGED <<data, client_details, params, input_text, selected_model,
                   payload, response, response_data, message_content,
                   tool_call, exception, posts>>

(* Line 105: params.input or params.prompt.                                *)
InputText(p) == IF p.input # <<>> THEN p.input ELSE p.prompt

(* Lines 105-117.                                                          *)
ValidateInput ==
    /\ pc = "check_input"
    /\ input_text' = InputText(params)
    /\ IF Blank(InputText(params))
       THEN /\ result' = Some(LlmResponseStruct(None,
                   Some([message |-> "Either prompt or input must be provided and non-empty",
                         received_input |-> params.input,
                         received_prompt |-> params.prompt]), FALSE))
            /\ pc' = "done"
            /\ UNCHANGED passed
       ELSE /\ pc' = "check_model"
            /\ passed' = passed \cup {"input"}
            /\ UNCHANGED result
    /\ UNCHANGED <<data, client_details, params, selected_model, payload,
                   response, response_data, message_content, tool_call,
                   exception, posts>>

SelectedModel(p) == IF p.input_type = "image" THEN p.vision_model ELSE p.chat_model

ValidateModelNoReturn ==
    /\ pc = "check_model"
    /\ selected_model' = SelectedModel(params)
    /\ pc' = "build"
    /\ passed' = IF SelectedModel(params) \in valid_models
                 THEN passed \cup {"model"} ELSE passed
    /\ UNCHANGED <<data, client_details, params, input_text, payload,
                   response, response_data, message_content, tool_call,
                   result, exception, posts>>

(* Lines 119-131.                                                          *)
ValidateModel ==
    /\ pc = "check_model"
    /\ selected_model' = SelectedModel(params)
    /\ IF SelectedModel(params) \notin valid_models
       THEN /\ result' = Some(LlmResponseStruct(None,
                             Some([message |-> "Unsupported model",
                                   received |-> SelectedModel(params)]), FALSE))
            /\ pc' = "done"
            /\ UNCHANGED passed
       ELSE /\ pc' = "build"
            /\ passed' = passed \cup {"model"}
            /\ UNCHANGED result
    /\ UNCHANGED <<data, client_details, params, input_text, payload,
                   response, response_data, message_content, tool_call,
                   exception, posts>>

(* Lines 133-139: history turns, in order, roles user and model only.      *)
RECURSIVE ChatContentsAllRoles(_)
ChatContentsAllRoles(h) ==
    IF h = <<>> THEN <<>>
    ELSE <<[role |-> Head(h).val.role, parts |-> <<[text |-> Head(h).val.content]>>]>>
         \o ChatContentsAllRoles(Tail(h))

RECURSIVE ChatContents(_)
ChatContents(h) ==
    IF h = <<>> THEN <<>>
    ELSE (IF Head(h).val.role \in {"user", "model"}
          THEN <<[role |-> Head(h).val.role, parts |-> <<[text |-> Head(h).val.content]>>]>>
          ELSE <<>>)
         \o ChatContents(Tail(h))

(* Lines 154-157: the system instruction, present iff prompt is non-blank. *)
SystemInstructionFromInput(p) ==
    IF p.input # <<>> /\ Len(Strip(p.input)) > 0
    THEN "system_instruction" :> [parts |-> <<[text |-> p.input]>>]
    ELSE <<>>

SystemInstruction(p) ==
    IF p.prompt # <<>> /\ Len(Strip(p.prompt)) > 0
    THEN "system_instruction" :> [parts |-> <<[text |-> p.prompt]>>]
    ELSE <<>>

(* Lines 133-195; msg.role on a history entry that is not a ChatMessage    *)
(* raises AttributeError, which the outer handler turns into an envelope.  *)
BuildPayload ==
    /\ pc = "build"
    /\ IF \E i \in 1..Len(params.chat_history) :
              params.chat_history[i].type # "ChatMessage"
       THEN /\ result' = Some(UnexpectedError("AttributeError"))
            /\ pc' = "done"
            /\ UNCHANGED payload
       ELSE /\ payload' = ("contents" :>
                              Append(ChatContents(params.chat_history),
                                     [role |-> "user",
                                      parts |-> <<[text |-> input_text]>>]))
                          @@ SystemInstruction(params)
            /\ pc' = "post"
            /\ UNCHANGED result
    /\ UNCHANGED <<data, client_details, params, input_text, selected_model,
                   response, response_data, message_content, tool_call,
                   exception, posts, passed>>

(* ------------------------- provider behaviour ------------------------- *)

Body(n) == [i \in 1..n |-> "x"]

BodyLens == {0, 500, 501}

StatusCodes == {404, 503}

PartSet ==
    {<<>>,
     "text" :> <<"H">>,
     "functionCall" :> Some("f1"),
     "functionCall" :> Some("f2"),
     "functionCall" :> None,
     ("text" :> <<"w">>) @@ ("functionCall" :> Some("f1"))}

PartSeqs == UNION {[1..n -> PartSet] : n \in 0..MaxParts}

ProviderJson ==
    {<<>>, "candidates" :> <<>>, "candidates" :> << <<>> >>}
    \cup {"candidates" :> << "content" :> ("parts" :> ps) >> : ps \in PartSeqs}

TransportOutcomes ==
    {[kind |-> "timeout"], [kind |-> "connection"], [kind |-> "bad_json"]}
    \cup {[kind |-> "http_error", status_code |-> c, text |-> Body(n)] :
             c \in StatusCodes, n \in BodyLens}
    \cup {[kind |-> "ok", json |-> j] : j \in ProviderJson}

(* Lines 210-216: err_data of a RequestException; its response attribute   *)
(* is the HTTP response for a non-2xx status and None otherwise.           *)
ErrData(r) ==
    [message |-> "API request failed",
     status_code |-> IF r.kind = "http_error" THEN Some(r.status_code) ELSE None,
     response |-> IF r.kind = "http_error" THEN Some(Truncate(r.text)) ELSE None]

(* Lines 197-219: one POST. A 2xx body that is not JSON raises from        *)
(* response.json(): a RequestException subclass in requests >= 2.27, a     *)
(* plain ValueError before, which reaches the outer handler.               *)
PostRequest ==
    /\ pc = "post"
    /\ posts' = posts + 1
    /\ \E r \in TransportOutcomes :
         /\ response' = r
         /\ IF r.kind = "ok"
            THEN /\ response_data' = r.json
                 /\ pc' = "normalize"
                 /\ UNCHANGED result
            ELSE /\ pc' = "done"
                 /\ UNCHANGED response_data
                 /\ IF r.kind = "bad_json"
                    THEN \E isRequestException \in BOOLEAN :
                           result' = IF isRequestException
                                     THEN Some(LlmResponseStruct(None, Some(ErrData(r)), FALSE))
                                     ELSE Some(UnexpectedError("JSONDecodeError"))
                    ELSE result' = Some(LlmResponseStruct(None, Some(ErrData(r)), FALSE))
    /\ UNCHANGED <<data, client_details, params, input_text, selected_model,
                   payload, message_content, tool_call, exception, passed>>

(* Line 222: not candidates, after the default [] for an absent key.       *)
NoCandidatesIfPresent(rd) == "candidates" \in DOMAIN rd /\ rd["candidates"] = <<>>

NoCandidates(rd) == GetOr(rd, "candidates", <<>>) = <<>>

(* Lines 235-242: the scan over the parts of the first candidate.          *)
RECURSIVE ScanPartsFirstWins(_, _, _)
ScanPartsFirstWins(parts, msg, tc) ==
    IF parts = <<>> THEN [message_content |-> msg, tool_call |-> tc]
    ELSE LET part == Head(parts)
         IN IF "text" \in DOMAIN part
            THEN ScanPartsFirstWins(Tail(parts), msg \o part["text"], tc)
            ELSE IF "functionCall" \in DOMAIN part /\ tc = None
                 THEN ScanPartsFirstWins(Tail(parts), msg, part["functionCall"])
                 ELSE ScanPartsFirstWins(Tail(parts), msg, tc)

RECURSIVE ScanParts(_, _, _)
ScanParts(parts, msg, tc) ==
    IF parts = <<>> THEN [message_content |-> msg, tool_call |-> tc]
    ELSE LET part == Head(parts)
         IN IF "text" \in DOMAIN part
            THEN ScanParts(Tail(parts), msg \o part["text"], tc)
            ELSE IF "functionCall" \in DOMAIN part
                 THEN ScanParts(Tail(parts), msg, part["functionCall"])
                 ELSE ScanParts(Tail(parts), msg, tc)

SuccessResponseDataFormat(rd, msg, is_tool_call) ==
    LET usage == GetOr(rd, "usageMetadata", <<>>)
    IN [total_llm_calls |-> 1,
        total_tokens |-> GetOr(usage, "totalTokenCount", 0),
        total_input_tokens |-> GetOr(usage, "promptTokenCount", 0),
        total_output_tokens |-> GetOr(usage, "candidatesTokenCount", 0),
        final_llm_response |-> rd,
        llm_responses_arr |-> <<rd>>,
        messages |-> <<msg>>,
        output_type |-> IF is_tool_call THEN "tool_call" ELSE "text"]

(* Lines 221-259; candidates[0] on an empty list raises IndexError.        *)
NormalizeResponse ==
    /\ pc = "normalize"
    /\ pc' = "done"
    /\ LET candidates == GetOr(response_data, "candidates", <<>>)
       IN IF NoCandidates(response_data)
          THEN /\ result' = Some(LlmResponseStruct(None,
                                Some([message |-> "No candidates in response",
                                      response |-> response_data]), FALSE))
               /\ UNCHANGED <<message_content, tool_call>>
          ELSE IF candidates = <<>>
          THEN /\ result' = Some(UnexpectedError("IndexError"))
               /\ UNCHANGED <<message_content, tool_call>>
          ELSE LET content == GetOr(candidates[1], "content", <<>>)
                   parts == GetOr(content, "parts", << <<>> >>)
                   scan == ScanParts(parts, <<>>, None)
               IN /\ message_content' = Some(scan.message_content)
                  /\ tool_call' = scan.tool_call
                  /\ result' = Some(LlmResponseStruct(
                                  Some(SuccessResponseDataFormat(response_data,
                                          scan.message_content, scan.tool_call # None)),
                                  None, TRUE))
    /\ UNCHANGED <<data, client_details, params, input_text, selected_model,
                   payload, response, response_data, exception, posts, passed>>

Next ==
    \/ DumpRawInput
    \/ ParseParams
    \/ ValidateApiKey
    \/ ValidateInput
    \/ ValidateModel
    \/ BuildPayload
    \/ PostRequest
    \/ NormalizeResponse


Spec == Init /\ [][Next]_vars


(* ------------------------------ claims -------------------------------- *)

AllWhitespace(s) == \A i \in 1..Len(s) : s[i] \in Whitespace

Done == pc = "done"

Returned == result # None

Envelope == result[1]

ErrorIs(msg) ==
    /\ Returned
    /\ Envelope.Status = FALSE
    /\ Envelope.Data = None
    /\ Envelope.Error # None
    /\ Envelope.Error[1].message = msg

WellFormed(env) ==
    /\ (env.Data = None) # (env.Error = None)
    /\ env.Status = (env.Data # None)

SentKey(bag) == "api_key" \in DOMAIN bag /\ ~AllWhitespace(bag["api_key"])

LacksApiKey == ~SentKey(data) /\ ~SentKey(GetOr(data, "client_details", <<>>))

FirstParts(rd) == GetOr(GetOr(rd["candidates"][1], "content", <<>>), "parts", << <<>> >>)

Succeeded == Done /\ Returned /\ Envelope.Status = TRUE

FinalTurn == payload["contents"][Len(payload["contents"])]

\* C1: every invocation ends by returning an envelope with exactly one of
\* Data/Error populated and Status true iff Data is populated; no exception
\* reaches the caller, whatever the diagnostic snapshots do.
C1_AlwaysEnvelope ==
    Done => exception = None /\ Returned /\ WellFormed(Envelope)

\* C2: an input without a usable api_key at either level (empty,
\* whitespace-only or absent) ends with the "API key required" error and
\* no POST.
C2_MissingApiKey ==
    (Done /\ params # None /\ LacksApiKey) => ErrorIs("API key required") /\ posts = 0

\* C3 as stated: when input and prompt are both blank the result is the
\* missing-input error, whatever the other fields are.
C3_Original ==
    (Done /\ params # None /\ AllWhitespace(params.input) /\ AllWhitespace(params.prompt))
        => ErrorIs("Either prompt or input must be provided and non-empty")

BothBlankIn(bag) ==
    /\ AllWhitespace(GetOr(EffectiveClientDetails(bag), "input", <<>>))
    /\ AllWhitespace(GetOr(EffectiveClientDetails(bag), "prompt", <<>>))

\* C3 amended: when input and prompt are both blank the invocation makes no
\* POST and never succeeds, and once the API-key validation has passed it
\* ends with the missing-input error.
C3_MissingInput ==
    (Done /\ BothBlankIn(data)) =>
        /\ posts = 0
        /\ (Returned => Envelope.Status = FALSE)
        /\ ("api_key" \in passed =>
               ErrorIs("Either prompt or input must be provided and non-empty"))

C3_Witness ==
    /\ Done /\ BothBlankIn(data) /\ "api_key" \in passed
    /\ params.input = <<" ">>
    /\ ErrorIs("Either prompt or input must be provided and non-empty")

\* C4: the POST happens at most once and only after the key, input and
\* model validations have all passed; an invocation that returns one of
\* the three validation errors has made no POST.
C4_PostAfterValidation ==
    /\ posts <= 1
    /\ (posts > 0 => passed = {"api_key", "input", "model"})
    /\ ((ErrorIs("Unsupported model") \/ ErrorIs("API key required")
           \/ ErrorIs("Either prompt or input must be provided and non-empty"))
          => posts = 0)

C4_Witness == Done /\ ErrorIs("Unsupported model") /\ posts = 0 /\ selected_model = "gpt-4"

KeptRole(m) == m.val.role \in {"user", "model"}

\* C5: the built contents are exactly the history entries of role user or
\* model, in order, one single-text-part turn each, followed by one final
\* user turn carrying the current input text.
C5_Contents ==
    payload # None =>
        LET c == payload["contents"]
            kept == SelectSeq(params.chat_history, KeptRole)
        IN /\ Len(c) = Len(kept) + 1
           /\ \A i \in 1..Len(kept) :
                 c[i] = [role |-> kept[i].val.role,
                         parts |-> <<[text |-> kept[i].val.content]>>]
           /\ c[Len(c)] = [role |-> "user",
                           parts |-> <<[text |-> IF params.input # <<>>
                                                 THEN params.input ELSE params.prompt]>>]
           /\ \A i \in 1..Len(c) : c[i].role \in {"user", "model"}

C5_Witness ==
    /\ payload # None
    /\ Len(params.chat_history) = 2
    /\ params.chat_history[1].val.role = "system"
    /\ params.chat_history[2].val.role = "model"
    /\ Len(payload["contents"]) = 2

TransportFailed ==
    response # None /\ response.kind \in {"timeout", "connection", "http_error"}

\* C6: a timeout, connection failure or non-2xx status ends with the
\* "API request failed" error, whose status_code is the HTTP status or
\* None and whose response excerpt is None or at most 500 characters; the
\* response normalizer does not run.
C6_TransportError ==
    (Done /\ TransportFailed) =>
        /\ ErrorIs("API request failed")
        /\ Envelope.Error[1].status_code =
              (IF response.kind = "http_error" THEN Some(response.status_code) ELSE None)
        /\ (response.kind # "http_error" => Envelope.Error[1].response = None)
        /\ (Envelope.Error[1].response # None =>
               Len(Envelope.Error[1].response[1]) <= 500)
        /\ response_data = None /\ message_content = None /\ tool_call = None

C6_Witness ==
    /\ Done /\ TransportFailed /\ response.kind = "http_error"
    /\ Len(response.text) = 501
    /\ Len(Envelope.Error[1].response[1]) = 500

ProviderAnsweredWithoutCandidates ==
    /\ response # None /\ response.kind = "ok"
    /\ ("candidates" \notin DOMAIN response.json \/ response.json["candidates"] = <<>>)

\* C7: a successful call whose response has no candidates key or an empty
\* candidates list ends with the "No candidates in response" error, Data
\* absent, and no exception.
C7_NoCandidates ==
    (Done /\ ProviderAnsweredWithoutCandidates) =>
        ErrorIs("No candidates in response") /\ exception = None

C7_Witness ==
    /\ Done /\ response # None /\ response.kind = "ok"
    /\ "candidates" \notin DOMAIN response.json
    /\ ErrorIs("No candidates in response")

CallParts(parts) == {i \in 1..Len(parts) : "functionCall" \in DOMAIN parts[i]}

PureCallParts(parts) == {i \in CallParts(parts) : "text" \notin DOMAIN parts[i]}

Last(S) == CHOOSE i \in S : \A j \in S : j <= i

\* C8 as stated (function calls taken to be non-null): output_type is
\* tool_call iff some part carries a function-call field, a part with both
\* text and function call included, and the captured call is the last one.
C8_Original ==
    (Succeeded /\ \A i \in CallParts(FirstParts(response_data)) :
                      FirstParts(response_data)[i]["functionCall"] # None) =>
        LET parts == FirstParts(response_data)
        IN /\ (Envelope.Data[1].output_type = "tool_call") = (CallParts(parts) # {})
           /\ (CallParts(parts) # {} =>
                  tool_call = parts[Last(CallParts(parts))]["functionCall"])

\* C8 amended: only parts that carry a function-call field and no text
\* field count; the captured call is that of the last such part, and
\* output_type is tool_call iff such a part exists and its call is not null.
C8_OutputType ==
    Succeeded =>
        LET parts == FirstParts(response_data)
            calls == PureCallParts(parts)
        IN /\ Envelope.Data[1].output_type \in {"tool_call", "text"}
           /\ (calls = {} => tool_call = None /\ Envelope.Data[1].output_type = "text")
           /\ (calls # {} =>
                  /\ tool_call = parts[Last(calls)]["functionCall"]
                  /\ (Envelope.Data[1].output_type = "tool_call") = (tool_call # None))

C8_Witness ==
    /\ Succeeded
    /\ Len(FirstParts(response_data)) = 2
    /\ FirstParts(response_data)[1] = ("functionCall" :> Some("f1"))
    /\ FirstParts(response_data)[2] = ("functionCall" :> Some("f2"))
    /\ tool_call = Some("f2")
    /\ Envelope.Data[1].output_type = "tool_call"

\* C9 as stated, in its particular case: with input empty and prompt
\* non-blank, the prompt is not the text of the final user turn.
C9_Original ==
    (payload # None /\ params.input = <<>> /\ ~AllWhitespace(params.prompt)) =>
        /\ "system_instruction" \in DOMAIN payload
        /\ FinalTurn.parts[1].text # params.prompt

\* C9 amended: a non-blank prompt is carried in system_instruction; the
\* final user turn carries input when input is non-empty and the prompt
\* itself when input is empty.
C9_SystemInstruction ==
    (payload # None /\ ~AllWhitespace(params.prompt)) =>
        /\ "system_instruction" \in DOMAIN payload
        /\ payload["system_instruction"] = [parts |-> <<[text |-> params.prompt]>>]
        /\ (params.input # <<>> => FinalTurn.parts[1].text = params.input)
        /\ (params.input = <<>> => FinalTurn.parts[1].text = params.prompt)

C9_Witness ==
    /\ payload # None /\ params.input = <<>> /\ params.prompt = <<"p", " ">>
    /\ payload["system_instruction"] = [parts |-> <<[text |-> <<"p", " ">>]>>]
    /\ FinalTurn.parts[1].text = <<"p", " ">>

\* C10: with a usable key and at least one of input/prompt non-blank,
\* validation does not end with the missing-input error, and the final
\* user turn is non-blank.
C10_NoSpuriousMissingInput ==
    (params # None /\ ~AllWhitespace(params.api_key)
       /\ (~AllWhitespace(params.input) \/ ~AllWhitespace(params.prompt))) =>
        /\ ~ErrorIs("Either prompt or input must be provided and non-empty")
        /\ (payload # None => ~AllWhitespace(FinalTurn.parts[1].text))

====
